---- MODULE Spec2Model ----
(***************************************************************************)
(* Model of the CoinAfrique scraping pipeline:                             *)
(*   src/utils/data_cleaner.py          clean_beautifulsoup_data           *)
(*   src/scraper/beautifulsoup_scraper.py  scrape_page, scrape_category    *)
(*                                                                         *)
(* Text is modelled by what the Python code does with it.  A name or a     *)
(* price text is a tuple of one-character strings, so that trimming,       *)
(* lower-casing, substring search, replacement, the \d+ search and the     *)
(* formatting of a suffix are computed.  An address, an image link or a    *)
(* URL is a TLA+ string (the code only copies it or concatenates to it).   *)
(* An optional value is a record [null, v]; None and NaN are the records   *)
(* with null = TRUE.                                                       *)
(*                                                                         *)
(* pandas semantics are those of pandas 1.x / 2.x with object columns:     *)
(* astype(str) turns None into the text 'None'.                            *)
(***************************************************************************)
EXTENDS Integers, Sequences, FiniteSets, TLC

(***************************************************************************)
(* Bounds                                                                  *)
(***************************************************************************)
\* rows of an input table of the cleaner
MaxRows == 4
\* rows of an input table that has one column too many
MaxWideRows == 2
\* num_pages of a crawl
MaxPages == 2
\* containers on a listing page of a crawl over several pages
MaxContainers == 2
\* containers on the listing page of a crawl of one page
MaxPageContainers == 4

(***************************************************************************)
(* Optional values                                                         *)
(***************************************************************************)
NoneStr == [null |-> TRUE, v |-> ""]
None == [null |-> TRUE, v |-> <<>>]
NaN == [null |-> TRUE, v |-> 0]
Some(x) == [null |-> FALSE, v |-> x]

Range(s) == {s[i] : i \in 1..Len(s)}

(***************************************************************************)
(* Python / pandas text primitives                                         *)
(***************************************************************************)
UpperToLower ==
    [c \in {"A","B","C","D","E","F","G","H","I","J","K","L","M","N","O","P",
            "Q","R","S","T","U","V","W","X","Y","Z","É"} |->
       CASE c = "A" -> "a" [] c = "B" -> "b" [] c = "C" -> "c" [] c = "D" -> "d"
         [] c = "E" -> "e" [] c = "F" -> "f" [] c = "G" -> "g" [] c = "H" -> "h"
         [] c = "I" -> "i" [] c = "J" -> "j" [] c = "K" -> "k" [] c = "L" -> "l"
         [] c = "M" -> "m" [] c = "N" -> "n" [] c = "O" -> "o" [] c = "P" -> "p"
         [] c = "Q" -> "q" [] c = "R" -> "r" [] c = "S" -> "s" [] c = "T" -> "t"
         [] c = "U" -> "u" [] c = "V" -> "v" [] c = "W" -> "w" [] c = "X" -> "x"
         [] c = "Y" -> "y" [] c = "Z" -> "z" [] c = "É" -> "é"]

\* str.lower()
str_lower(x) ==
    [i \in 1..Len(x) |-> IF x[i] \in DOMAIN UpperToLower THEN UpperToLower[x[i]] ELSE x[i]]

\* keyword in x
str_contains(x, keyword) ==
    \E i \in 1..(Len(x) - Len(keyword) + 1) : SubSeq(x, i, i + Len(keyword) - 1) = keyword

\* str.replace(pat, ''): every non-overlapping occurrence, left to right
RECURSIVE str_remove(_, _)
str_remove(x, pat) ==
    IF Len(x) < Len(pat) THEN x
    ELSE IF SubSeq(x, 1, Len(pat)) = pat
         THEN str_remove(SubSeq(x, Len(pat) + 1, Len(x)), pat)
         ELSE <<x[1]>> \o str_remove(Tail(x), pat)

Digits == {"0","1","2","3","4","5","6","7","8","9"}

DigitValue ==
    [c \in Digits |->
       CASE c = "0" -> 0 [] c = "1" -> 1 [] c = "2" -> 2 [] c = "3" -> 3 [] c = "4" -> 4
         [] c = "5" -> 5 [] c = "6" -> 6 [] c = "7" -> 7 [] c = "8" -> 8 [] c = "9" -> 9]

\* re.findall(r'\d+', x)[0]: the leftmost maximal run of digits, <<>> when
\* findall returns the empty list
re_first_digits(x) ==
    IF \A i \in 1..Len(x) : x[i] \notin Digits THEN <<>>
    ELSE LET first == CHOOSE i \in 1..Len(x) :
                         x[i] \in Digits /\ \A j \in 1..(i - 1) : x[j] \notin Digits
             last  == CHOOSE k \in first..Len(x) :
                         /\ \A j \in first..k : x[j] \in Digits
                         /\ (k = Len(x) \/ x[k + 1] \notin Digits)
         IN SubSeq(x, first, last)

\* float(digits)
RECURSIVE to_float(_)
to_float(d) ==
    IF Len(d) = 0 THEN 0
    ELSE 10 * to_float(SubSeq(d, 1, Len(d) - 1)) + DigitValue[d[Len(d)]]

\* str(n) of a natural number
RECURSIVE int_str(_)
int_str(n) ==
    LET d == CHOOSE c \in Digits : DigitValue[c] = n % 10
    IN IF n < 10 THEN <<d>> ELSE int_str(n \div 10) \o <<d>>

Whitespace == {" ", "\t", "\n"}

\* str.strip()
RECURSIVE str_strip(_)
str_strip(x) ==
    IF Len(x) = 0 THEN x
    ELSE IF x[1] \in Whitespace THEN str_strip(Tail(x))
    ELSE IF x[Len(x)] \in Whitespace THEN str_strip(SubSeq(x, 1, Len(x) - 1))
    ELSE x

\* Series.astype(str) on one value of an object column
astype_str(p) == IF p.null THEN <<"N","o","n","e">> ELSE p.v

(***************************************************************************)
(* Tables (pandas DataFrame): ordered column labels, row labels (index),   *)
(* and rows, each row a function from the column labels to values.         *)
(* raised = TRUE stands for an exception leaving clean_beautifulsoup_data: *)
(* every later statement is skipped.                                       *)
(***************************************************************************)
DataFrame(columns, rows) ==
    [raised |-> FALSE, columns |-> columns,
     index |-> [i \in 1..Len(rows) |-> i - 1], rows |-> rows]

Raised == [raised |-> TRUE, columns |-> <<>>, index |-> <<>>, rows |-> <<>>]

\* DataFrame.empty: some axis has length 0
df_empty(df) == Len(df.rows) = 0 \/ Len(df.columns) = 0

has_column(df, col) == col \in Range(df.columns)

\* df[key] with a list of column labels
getitem_columns(df, cols) ==
    IF \E i \in 1..Len(cols) : ~has_column(df, cols[i]) THEN Raised
    ELSE [df EXCEPT !.columns = cols,
                    !.rows = [i \in 1..Len(df.rows) |->
                                [c \in Range(cols) |-> df.rows[i][c]]]]

\* df[mask] with a Series mask.  A mask of bool dtype, or a non-empty object
\* mask of booleans, selects rows; an empty object-dtype mask is not a
\* boolean indexer and is taken as an (empty) list of column labels.
getitem_mask(df, mask) ==
    IF mask.dtype = "bool" \/ Len(mask.values) > 0
    THEN LET keep == SelectSeq([i \in 1..Len(df.rows) |-> i], LAMBDA i : mask.values[i])
         IN [df EXCEPT !.index = [j \in 1..Len(keep) |-> df.index[keep[j]]],
                       !.rows = [j \in 1..Len(keep) |-> df.rows[keep[j]]]]
    ELSE getitem_columns(df, <<>>)

\* Series.apply(func) giving booleans: object dtype when the Series is empty
apply_mask(values) ==
    [dtype |-> IF Len(values) = 0 THEN "object" ELSE "bool", values |-> values]

bool_mask(values) == [dtype |-> "bool", values |-> values]

\* df[col] = values
set_column(df, col, values) ==
    IF Len(values) # Len(df.rows) THEN Raised
    ELSE [df EXCEPT !.columns = IF has_column(df, col) THEN @ ELSE Append(@, col),
                    !.rows = [i \in 1..Len(df.rows) |->
                                [c \in Range(df.columns) \cup {col} |->
                                    IF c = col THEN values[i] ELSE df.rows[i][c]]]]

\* df.drop(col, axis=1): KeyError when the label is absent
drop_column(df, col) ==
    IF df.raised \/ ~has_column(df, col) THEN Raised
    ELSE getitem_columns(df, SelectSeq(df.columns, LAMBDA c : c # col))

\* df.reset_index(drop=True)
reset_index(df) == [df EXCEPT !.index = [i \in 1..Len(df.rows) |-> i - 1]]

column(df, col) == [i \in 1..Len(df.rows) |-> df.rows[i][col]]


(***************************************************************************)
(* Texts                                                                   *)
(***************************************************************************)
\* 'Chien'
N_CHIEN == <<"C","h","i","e","n">>

\* 'Chat'
N_CHAT == <<"C","h","a","t">>

\* 'Chien 1'
N_CHIEN_1 == <<"C","h","i","e","n"," ","1">>

\* ' Chien\n'
H1_CHIEN == <<" ","C","h","i","e","n","\n">>

\* '  '
H1_BLANK == <<" "," ">>

\* '\n30 CFA '
P_30_CFA_NL == <<"\n","3","0"," ","C","F","A"," ">>

\* 'demande'
KW_DEMANDE == <<"d","e","m","a","n","d","e">>

\* 'négociable'
KW_NEGOCIABLE == <<"n","é","g","o","c","i","a","b","l","e">>

\* 'contacter'
KW_CONTACTER == <<"c","o","n","t","a","c","t","e","r">>

\* 'appeler'
KW_APPELER == <<"a","p","p","e","l","e","r">>

\* '30 CFA'
P_30_CFA == <<"3","0"," ","C","F","A">>

\* '1 0 CFA'
P_1_0_CFA == <<"1"," ","0"," ","C","F","A">>

\* '5CFA'
P_5CFA == <<"5","C","F","A">>

\* '90 CFA'
P_90_CFA == <<"9","0"," ","C","F","A">>

\* 'Gratuit'
P_GRATUIT == <<"G","r","a","t","u","i","t">>

\* 'Prix sur demande'
P_SUR_DEMANDE == <<"P","r","i","x"," ","s","u","r"," ","d","e","m","a","n","d","e">>

\* 'APPELER 99'
P_APPELER_99 == <<"A","P","P","E","L","E","R"," ","9","9">>


(***************************************************************************)
(* clean_beautifulsoup_data, src/utils/data_cleaner.py                     *)
(***************************************************************************)
keywords == <<KW_DEMANDE, KW_NEGOCIABLE, KW_CONTACTER, KW_APPELER>>

columns_to_keep == <<"nom", "prix", "adresse", "image_lien">>

\* mutant of nom_mask: the length test is forgotten
nom_mask_notna_only(nom) == ~nom.null

\* line 37: nom.notna() & (nom.str.len() > 0)
nom_mask(nom) == ~nom.null /\ Len(nom.v) > 0

\* 1. rows without a name
drop_empty_nom(df) ==
    IF df.raised THEN df
    ELSE IF has_column(df, "nom")
    THEN getitem_mask(df, bool_mask([i \in 1..Len(df.rows) |-> nom_mask(df.rows[i]["nom"])]))
    ELSE df

\* mutant of prix_mask: the text is not lower-cased
prix_mask_case_sensitive(prix) ==
    LET x == astype_str(prix)
    IN ~ \E k \in 1..Len(keywords) : str_contains(x, keywords[k])

\* lines 46-48: not any(keyword in x for keyword in keywords), x the
\* lower-cased text of the price
prix_mask(prix) ==
    LET x == str_lower(astype_str(prix))
    IN ~ \E k \in 1..Len(keywords) : str_contains(x, keywords[k])

\* 2. rows "price on request"
drop_prix_sur_demande(df) ==
    IF df.raised THEN df
    ELSE IF has_column(df, "prix")
    THEN getitem_mask(df, apply_mask([i \in 1..Len(df.rows) |-> prix_mask(df.rows[i]["prix"])]))
    ELSE df

\* lines 59-61: the numeric price, NaN when the text holds no digit
prix_num(prix) ==
    LET x == str_remove(str_remove(astype_str(prix), <<" ">>), <<"C","F","A">>)
        found == re_first_digits(x)
    IN IF Len(found) > 0 THEN Some(to_float(found)) ELSE NaN

\* Series.dropna()
dropna(values) == SelectSeq(values, LAMBDA p : ~p.null)

RECURSIVE series_sum(_)
series_sum(values) ==
    IF Len(values) = 0 THEN 0 ELSE values[1].v + series_sum(Tail(values))

\* mutant of not_outlier: a price equal to the threshold is dropped
not_outlier_strict(num, prix_valides) ==
    num.null \/ 2 * Len(prix_valides) * num.v > series_sum(prix_valides)

\* mutant of not_outlier: the rows without a numeric price are not kept
not_outlier_drops_nan(num, prix_valides) ==
    ~num.null /\ 2 * Len(prix_valides) * num.v >= series_sum(prix_valides)

\* mutant of not_outlier: the threshold is the mean, not half of it
not_outlier_mean(num, prix_valides) ==
    num.null \/ Len(prix_valides) * num.v >= series_sum(prix_valides)

\* lines 66-73: prix_num >= seuil, with seuil = prix_moyen / 2 and
\* prix_moyen = sum(prix_valides) / len(prix_valides); the comparison is made
\* on integers (both sides multiplied by 2 * len(prix_valides)), which is
\* what the float comparison gives for prices far below 2^53
not_outlier(num, prix_valides) ==
    num.null \/ 2 * Len(prix_valides) * num.v >= series_sum(prix_valides)

\* mutant of drop_prix_aberrants: the price text is replaced by its cleaned
\* form (spaces and 'CFA' removed) instead of being left as scraped
drop_prix_aberrants_rewrites_prix(df) ==
    IF df.raised THEN df
    ELSE IF has_column(df, "prix") /\ Len(df.rows) > 0
    THEN LET with_num == set_column(
                            set_column(df, "prix_num",
                               [i \in 1..Len(df.rows) |-> prix_num(df.rows[i]["prix"])]),
                            "prix",
                            [i \in 1..Len(df.rows) |->
                               IF df.rows[i]["prix"].null THEN df.rows[i]["prix"]
                               ELSE Some(str_remove(str_remove(df.rows[i]["prix"].v, <<" ">>),
                                                    <<"C","F","A">>))])
             prix_valides == dropna(column(with_num, "prix_num"))
             kept == IF Len(prix_valides) > 0
                     THEN getitem_mask(with_num,
                            bool_mask([i \in 1..Len(with_num.rows) |->
                               not_outlier(with_num.rows[i]["prix_num"], prix_valides)]))
                     ELSE with_num
         IN drop_column(kept, "prix_num")
    ELSE df

\* mutant of drop_prix_aberrants: the temporary column is dropped outside
\* the block that creates it
drop_prix_aberrants_drop_outside(df) ==
    IF df.raised THEN df ELSE
    LET computed ==
          IF has_column(df, "prix") /\ Len(df.rows) > 0
          THEN LET with_num == set_column(df, "prix_num",
                                  [i \in 1..Len(df.rows) |-> prix_num(df.rows[i]["prix"])])
                   prix_valides == dropna(column(with_num, "prix_num"))
               IN IF Len(prix_valides) > 0
                  THEN getitem_mask(with_num,
                         bool_mask([i \in 1..Len(with_num.rows) |->
                            not_outlier(with_num.rows[i]["prix_num"], prix_valides)]))
                  ELSE with_num
          ELSE df
    IN drop_column(computed, "prix_num")

\* 3. prices below half the mean
drop_prix_aberrants(df) ==
    IF df.raised THEN df
    ELSE IF has_column(df, "prix") /\ Len(df.rows) > 0
    THEN LET with_num == set_column(df, "prix_num",
                            [i \in 1..Len(df.rows) |-> prix_num(df.rows[i]["prix"])])
             prix_valides == dropna(column(with_num, "prix_num"))
             kept == IF Len(prix_valides) > 0
                     THEN getitem_mask(with_num,
                            bool_mask([i \in 1..Len(with_num.rows) |->
                               not_outlier(with_num.rows[i]["prix_num"], prix_valides)]))
                     ELSE with_num
         IN drop_column(kept, "prix_num")
    ELSE df

\* mutant of suffixed: the count of the first repeat is 2
suffixed_from_two(nom, count) == Some(astype_str(nom) \o <<" ">> \o int_str(count + 1))

\* line 91: f"{nom} {nom_counts[nom]}"
suffixed(nom, count) == Some(astype_str(nom) \o <<" ">> \o int_str(count))

\* lines 85-94: the loop over the names, from position i on
RECURSIVE new_noms(_, _, _)
new_noms(noms, i, nom_counts) ==
    IF i > Len(noms) THEN <<>>
    ELSE LET nom == noms[i]
         IN IF nom \in DOMAIN nom_counts
            THEN LET count == nom_counts[nom] + 1
                 IN <<suffixed(nom, count)>>
                      \o new_noms(noms, i + 1, [nom_counts EXCEPT ![nom] = count])
            ELSE <<nom>> \o new_noms(noms, i + 1, (nom :> 0) @@ nom_counts)

\* 4. duplicate names get a suffix
rename_duplicates(df) ==
    IF df.raised THEN df
    ELSE IF has_column(df, "nom")
    THEN set_column(df, "nom", new_noms(column(df, "nom"), 1, [n \in {} |-> 0]))
    ELSE df

\* 5. the four columns, index reset
keep_columns(df) ==
    IF df.raised THEN df
    ELSE reset_index(getitem_columns(df, SelectSeq(columns_to_keep, LAMBDA col : has_column(df, col))))

clean_beautifulsoup_data(df) ==
    IF df_empty(df) THEN df
    ELSE keep_columns(rename_duplicates(drop_prix_aberrants(
             drop_prix_sur_demande(drop_empty_nom(df)))))

(***************************************************************************)
(* Input tables of the cleaner                                             *)
(***************************************************************************)
Item(nom, prix, adresse, image_lien) ==
    [nom |-> nom, prix |-> prix, adresse |-> adresse, image_lien |-> image_lien]

RowSamples ==
    { Item(Some(N_CHIEN),   Some(P_30_CFA),     Some("Dakar"), Some("img1")),
      Item(Some(N_CHIEN),   Some(P_1_0_CFA),    NoneStr,       NoneStr),
      Item(Some(N_CHAT),    Some(P_5CFA),       Some("Thies"), Some("img2")),
      Item(Some(N_CHIEN_1), None,               Some("Dakar"), Some("img1")),
      Item(None,            Some(P_90_CFA),     Some("Dakar"), NoneStr),
      Item(Some(<<>>),      Some(P_GRATUIT),    NoneStr,       Some("img2")),
      Item(Some(N_CHAT),    Some(P_SUR_DEMANDE), Some("Thies"), Some("img1")),
      Item(Some(N_CHIEN),   Some(P_APPELER_99), Some("Dakar"), NoneStr),
      Item(Some(N_CHAT),    Some(P_GRATUIT),    NoneStr,       Some("img2")) }

\* a table with one more column than the four of the scraper
with_url(rows) ==
    [i \in 1..Len(rows) |->
       [c \in Range(columns_to_keep) \cup {"url"} |->
          IF c = "url" THEN Some("u") ELSE rows[i][c]]]

\* the tables the cleaner is called with: pd.DataFrame([]) has no column; a
\* list of items gives the four columns ("four"); "wide" has one more
InputTable(shape, rows) ==
    CASE shape = "none" -> DataFrame(<<>>, <<>>)
      [] shape = "four" -> DataFrame(columns_to_keep, rows)
      [] shape = "wide" -> DataFrame(Append(columns_to_keep, "url"), with_url(rows))

(***************************************************************************)
(* scrape_page / scrape_category, src/scraper/beautifulsoup_scraper.py     *)
(***************************************************************************)
CATEGORIES ==
    [c \in {"chiens", "moutons", "poules-lapins-et-pigeons", "autres-animaux"} |->
        "https://sn.coinafrique.com/categorie/" \o c]

\* mutant of page_url: page 1 is asked for with ?page=1
page_url_always_query(base_url, n) == base_url \o "?page=" \o ToString(n)

\* lines 189-192
page_url(base_url, n) ==
    IF n = 1 THEN base_url ELSE base_url \o "?page=" \o ToString(n)

\* line 98
detail_url(href) == "https://sn.coinafrique.com" \o href

\* the categories the model calls scrape_category with
CategoryInputs == {"chiens", "Chiens", "invalid-slug"}

\* One container of a listing page: its first <a> ("none": no anchor,
\* "nohref": an anchor without href, "href") and whether it holds an <img>
\* with a src.  The href and the src of a container are named after its page
\* and its position.
Containers ==
    {[a |-> "none", img |-> FALSE], [a |-> "nohref", img |-> FALSE]}
      \cup {[a |-> "href", img |-> b] : b \in BOOLEAN}

href_of(page, i) == "/annonces/" \o ToString(page) \o "-" \o ToString(i)

src_of(page, i) == "https://static/" \o ToString(page) \o "-" \o ToString(i) \o ".jpg"

\* What the request of one detail page gives.  result: "network" (connection
\* or timeout fault), "status" (raise_for_status on a non-2xx answer),
\* "raise" (an exception while parsing or extracting), "ok".  h1, price and
\* address are what the three lookups find in the page (None: no such node).
DetailPage(result, h1, price, address) ==
    [result |-> result, h1 |-> h1, price |-> price, address |-> address]

DetailPages ==
    { DetailPage("network", None, None, NoneStr),
      DetailPage("status",  None, None, NoneStr),
      DetailPage("raise",   Some(H1_CHIEN), Some(P_30_CFA), Some("Dakar")),
      DetailPage("ok", None,            Some(P_30_CFA), Some("Dakar")),
      DetailPage("ok", Some(H1_BLANK),  None,           NoneStr),
      DetailPage("ok", Some(H1_CHIEN),  Some(P_30_CFA_NL), Some("Dakar")),
      DetailPage("ok", Some(H1_CHIEN),  None,           NoneStr),
      DetailPage("ok", Some(N_CHAT),    Some(P_5CFA),   Some("Thies")) }

\* no detail page is requested for a container without href
NoDetailPage == DetailPage("none", None, None, NoneStr)

\* the detail pages of a crawl of one page: the request fails, the
\* extraction raises, no name is found (no heading, or a blank one), or the
\* page gives an item
PageDetailPages ==
    { DetailPage("status",  None, None, NoneStr),
      DetailPage("raise",   Some(H1_CHIEN), Some(P_30_CFA), Some("Dakar")),
      DetailPage("ok", None,            Some(P_30_CFA), Some("Dakar")),
      DetailPage("ok", Some(H1_BLANK),  None,           NoneStr),
      DetailPage("ok", Some(H1_CHIEN),  Some(P_30_CFA_NL), Some("Dakar")) }

DetailPagesOf(container) ==
    IF container.a = "href" THEN PageDetailPages ELSE {NoDetailPage}

\* the detail pages of a crawl whose items differ by their price: a price of
\* 30, a price of 5, no price node at all, or the request fails
PriceDetailPages ==
    { DetailPage("status",  None, None, NoneStr),
      DetailPage("ok", Some(H1_CHIEN),  Some(P_30_CFA_NL), Some("Dakar")),
      DetailPage("ok", Some(H1_CHIEN),  None,           Some("Dakar")),
      DetailPage("ok", Some(N_CHAT),    Some(P_5CFA),   Some("Thies")) }

\* the containers and the detail pages of a crawl over several pages: every
\* container has an anchor and an image, the request of a detail page fails,
\* or its extraction raises, or it gives an item
CrawlContainers == {[a |-> "href", img |-> TRUE]}

CrawlDetailPages ==
    { DetailPage("network", None, None, NoneStr),
      DetailPage("status",  None, None, NoneStr),
      DetailPage("raise",   Some(H1_CHIEN), Some(P_30_CFA), Some("Dakar")),
      DetailPage("ok", Some(H1_CHIEN),  Some(P_30_CFA_NL), Some("Dakar")) }

\* lines 116-125: tag.text.strip() if tag else None
text_strip(tag) == IF tag.null THEN None ELSE Some(str_strip(tag.v))

\* mutant of truthy: the test is `nom is not None`
truthy_is_not_none(nom) == ~nom.null

\* line 128: if nom
truthy(nom) == ~nom.null /\ Len(nom.v) > 0

\* entries of the log of requests and sleeps
Get(url, ok) == [op |-> "get", url |-> url, ok |-> ok]
Sleep(which) == [op |-> "sleep", url |-> which, ok |-> TRUE]

(***************************************************************************)
(* State                                                                   *)
(***************************************************************************)
VARIABLES
    pc,            \* position of scrape_category: "idle", "page" (about to
                   \* request listing page page_num), "containers" (in the
                   \* loop of scrape_page, at container idx), "clean" (loop
                   \* over the pages finished), "done" (returned), "failed"
                   \* (an exception left scrape_category)
    category,      \* argument category
    num_pages,     \* argument num_pages
    page_num,      \* loop variable of scrape_category
    containers,    \* containers of scrape_page: those of the listing page
                   \* requested last
    idx,           \* loop variable of scrape_page
    data,          \* data of scrape_page: items of the current page
    all_data,      \* all_data of scrape_category
    events,        \* every requests.get and time.sleep so far, in order
    error,         \* the exception that left scrape_category, "" when none
    df,            \* the table handed to clean_beautifulsoup_data
    out,           \* the table it returned
    runs,          \* number of calls of clean_beautifulsoup_data so far
    files,         \* the files written by save_to_csv
    saved          \* what save_to_csv did: "" (not called), the path it
                   \* returned, or the exception that left it

crawl_vars == <<pc, category, num_pages, page_num, containers, idx, data, all_data,
                events, error>>

clean_vars == <<df, out, runs>>

save_vars == <<files, saved>>

vars == <<pc, category, num_pages, page_num, containers, idx, data, all_data,
          events, error, df, out, runs, files, saved>>

\* line 90: len(containers)
n_containers == Len(containers)

NoTable == DataFrame(<<>>, <<>>)

\* pd.DataFrame(all_data): no column at all for an empty list
DataFrameOf(items) ==
    IF Len(items) = 0 THEN DataFrame(<<>>, <<>>) ELSE DataFrame(columns_to_keep, items)

Init ==
    /\ pc = "idle"
    /\ category = ""
    /\ num_pages = 0
    /\ page_num = 0
    /\ containers = <<>>
    /\ idx = 0
    /\ data = <<>>
    /\ all_data = <<>>
    /\ events = <<>>
    /\ error = ""
    /\ df = NoTable
    /\ out = NoTable
    /\ runs = 0
    /\ files = {}
    /\ saved = ""

\* mutant of Call: an unknown category gives an empty table, not an error
Call_returns_empty(c, n) ==
    /\ pc = "idle"
    /\ category' = c
    /\ num_pages' = n
    /\ IF c \notin DOMAIN CATEGORIES
       THEN pc' = "clean" /\ error' = error /\ page_num' = page_num
       ELSE pc' = (IF n >= 1 THEN "page" ELSE "clean") /\ error' = error /\ page_num' = 1
    /\ UNCHANGED <<containers, idx, data, all_data, events, df, out, runs>>
    /\ UNCHANGED save_vars

\* lines 174-178: scrape_category(category, num_pages) is called
Call(c, n) ==
    /\ pc = "idle"
    /\ category' = c
    /\ num_pages' = n
    /\ IF c \notin DOMAIN CATEGORIES
       THEN pc' = "failed" /\ error' = "ValueError" /\ page_num' = page_num
       ELSE pc' = (IF n >= 1 THEN "page" ELSE "clean") /\ error' = error /\ page_num' = 1
    /\ UNCHANGED <<containers, idx, data, all_data, events, df, out, runs>>
    /\ UNCHANGED save_vars

\* mutant of EndOfPage: the sleep between pages is taken after the last page
\* too
EndOfPage_sleeps_always(ev, page_data) ==
    /\ all_data' = all_data \o page_data
    /\ data' = <<>>
    /\ idx' = 0
    /\ IF page_num < num_pages
       THEN events' = Append(ev, Sleep("page")) /\ page_num' = page_num + 1 /\ pc' = "page"
       ELSE events' = Append(ev, Sleep("page")) /\ page_num' = page_num /\ pc' = "clean"
    /\ error' = error

\* mutant of EndOfPage: the items of a page are put before those collected
\* so far
EndOfPage_prepends(ev, page_data) ==
    /\ all_data' = page_data \o all_data
    /\ data' = <<>>
    /\ idx' = 0
    /\ IF page_num < num_pages
       THEN events' = Append(ev, Sleep("page")) /\ page_num' = page_num + 1 /\ pc' = "page"
       ELSE events' = ev /\ page_num' = page_num /\ pc' = "clean"
    /\ error' = error

\* lines 151-152 and 196-202: scrape_page returns page_data, scrape_category
\* extends all_data, sleeps unless this was the last page, and goes on
EndOfPage(ev, page_data) ==
    /\ all_data' = all_data \o page_data
    /\ data' = <<>>
    /\ idx' = 0
    /\ IF page_num < num_pages
       THEN events' = Append(ev, Sleep("page")) /\ page_num' = page_num + 1 /\ pc' = "page"
       ELSE events' = ev /\ page_num' = page_num /\ pc' = "clean"
    /\ error' = error

\* mutant of PageFails: the failure is caught and the page counts as empty
PageFails_swallowed(result) ==
    /\ pc = "page"
    /\ EndOfPage(Append(events, Get(page_url(CATEGORIES[category], page_num), result = "parse")),
                 <<>>)
    /\ UNCHANGED <<category, num_pages, containers>>
    /\ UNCHANGED clean_vars
    /\ UNCHANGED save_vars

\* lines 69-85 and 154-159: the request of listing page page_num fails
\* ("network", "status"), or its parsing does ("parse"): scrape_page raises
\* and nothing in scrape_category catches it
PageFails(result) ==
    /\ pc = "page"
    /\ events' = Append(events, Get(page_url(CATEGORIES[category], page_num), result = "parse"))
    /\ pc' = "failed"
    /\ error' = "Exception"
    /\ UNCHANGED <<category, num_pages, page_num, containers, idx, data, all_data>>
    /\ UNCHANGED clean_vars
    /\ UNCHANGED save_vars

\* mutant of PageArrives: a page without container ends the crawl (the site
\* is taken to have no more pages)
PageArrives_empty_stops(found) ==
    /\ pc = "page"
    /\ containers' = found
    /\ LET ev == Append(events, Get(page_url(CATEGORIES[category], page_num), TRUE))
       IN IF Len(found) = 0
          THEN /\ events' = ev
               /\ pc' = "clean"
               /\ data' = <<>>
               /\ idx' = 0
               /\ UNCHANGED <<page_num, all_data, error>>
          ELSE /\ events' = ev
               /\ idx' = 1
               /\ data' = <<>>
               /\ pc' = "containers"
               /\ UNCHANGED <<page_num, all_data, error>>
    /\ UNCHANGED <<category, num_pages>>
    /\ UNCHANGED clean_vars
    /\ UNCHANGED save_vars

\* lines 69-87: listing page page_num arrives, find_all gives the
\* containers found
PageArrives(found) ==
    /\ pc = "page"
    /\ containers' = found
    /\ LET ev == Append(events, Get(page_url(CATEGORIES[category], page_num), TRUE))
       IN IF Len(found) = 0
          THEN EndOfPage(ev, <<>>)
          ELSE /\ events' = ev
               /\ idx' = 1
               /\ data' = <<>>
               /\ pc' = "containers"
               /\ UNCHANGED <<page_num, all_data, error>>
    /\ UNCHANGED <<category, num_pages>>
    /\ UNCHANGED clean_vars
    /\ UNCHANGED save_vars

\* lines 109-145: the item of a detail page, None when the request or the
\* extraction raised or when no name was found
extract_item(detail, image_lien) ==
    IF detail.result # "ok" THEN <<>>
    ELSE LET nom == text_strip(detail.h1)
             prix_text == text_strip(detail.price)
         IN IF truthy(nom)
            THEN <<Item(nom, prix_text, detail.address, image_lien)>>
            ELSE <<>>

\* mutant of Container: a detail page whose request failed is requested a
\* second time, at once
Container_retries(container, detail) ==
    /\ pc = "containers"
    /\ container = containers[idx]
    /\ LET image_lien == IF container.img THEN Some(src_of(page_num, idx)) ELSE NoneStr
           fetched == container.a = "href"
           got == Get(detail_url(href_of(page_num, idx)), detail.result \in {"ok", "raise"})
           ev == IF fetched
                 THEN IF got.ok THEN events \o <<Sleep("detail"), got>>
                      ELSE events \o <<Sleep("detail"), got, got>>
                 ELSE events
           page_data == IF fetched THEN data \o extract_item(detail, image_lien) ELSE data
       IN IF idx < n_containers
          THEN /\ events' = ev
               /\ data' = page_data
               /\ idx' = idx + 1
               /\ UNCHANGED <<pc, page_num, all_data, error>>
          ELSE EndOfPage(ev, page_data)
    /\ UNCHANGED <<category, num_pages, containers>>
    /\ UNCHANGED clean_vars
    /\ UNCHANGED save_vars

\* mutant of Container: a container without link ends the loop (break for
\* continue)
Container_skip_breaks(container, detail) ==
    /\ pc = "containers"
    /\ container = containers[idx]
    /\ LET image_lien == IF container.img THEN Some(src_of(page_num, idx)) ELSE NoneStr
           fetched == container.a = "href"
           ev == IF fetched
                 THEN events \o <<Sleep("detail"),
                                  Get(detail_url(href_of(page_num, idx)),
                                      detail.result \in {"ok", "raise"})>>
                 ELSE events
           page_data == IF fetched THEN data \o extract_item(detail, image_lien) ELSE data
       IN IF idx < n_containers /\ fetched
          THEN /\ events' = ev
               /\ data' = page_data
               /\ idx' = idx + 1
               /\ UNCHANGED <<pc, page_num, all_data, error>>
          ELSE EndOfPage(ev, page_data)
    /\ UNCHANGED <<category, num_pages, containers>>
    /\ UNCHANGED clean_vars
    /\ UNCHANGED save_vars

\* mutant of Container: a non-2xx answer for a detail page is not caught
Container_fatal_status(container, detail) ==
    /\ pc = "containers"
    /\ container = containers[idx]
    /\ LET image_lien == IF container.img THEN Some(src_of(page_num, idx)) ELSE NoneStr
           fetched == container.a = "href"
           ev == IF fetched
                 THEN events \o <<Sleep("detail"),
                                  Get(detail_url(href_of(page_num, idx)),
                                      detail.result \in {"ok", "raise"})>>
                 ELSE events
           page_data == IF fetched THEN data \o extract_item(detail, image_lien) ELSE data
       IN IF fetched /\ detail.result = "status"
          THEN /\ events' = ev
               /\ pc' = "failed"
               /\ error' = "Exception"
               /\ UNCHANGED <<page_num, idx, data, all_data>>
          ELSE IF idx < n_containers
          THEN /\ events' = ev
               /\ data' = page_data
               /\ idx' = idx + 1
               /\ UNCHANGED <<pc, page_num, all_data, error>>
          ELSE EndOfPage(ev, page_data)
    /\ UNCHANGED <<category, num_pages, containers>>
    /\ UNCHANGED clean_vars
    /\ UNCHANGED save_vars

\* mutant of Container: a failure on a detail page is not caught
Container_propagates(container, detail) ==
    /\ pc = "containers"
    /\ container = containers[idx]
    /\ LET image_lien == IF container.img THEN Some(src_of(page_num, idx)) ELSE NoneStr
           fetched == container.a = "href"
           ev == IF fetched
                 THEN events \o <<Sleep("detail"),
                                  Get(detail_url(href_of(page_num, idx)),
                                      detail.result \in {"ok", "raise"})>>
                 ELSE events
           page_data == IF fetched THEN data \o extract_item(detail, image_lien) ELSE data
       IN IF fetched /\ detail.result \notin {"ok"}
          THEN /\ events' = ev
               /\ pc' = "failed"
               /\ error' = "Exception"
               /\ UNCHANGED <<page_num, idx, data, all_data>>
          ELSE IF idx < n_containers
          THEN /\ events' = ev
               /\ data' = page_data
               /\ idx' = idx + 1
               /\ UNCHANGED <<pc, page_num, all_data, error>>
          ELSE EndOfPage(ev, page_data)
    /\ UNCHANGED <<category, num_pages, containers>>
    /\ UNCHANGED clean_vars
    /\ UNCHANGED save_vars

\* lines 89-149: the body of the loop for container idx
Container(container, detail) ==
    /\ pc = "containers"
    /\ container = containers[idx]
    /\ LET image_lien == IF container.img THEN Some(src_of(page_num, idx)) ELSE NoneStr
           fetched == container.a = "href"
           ev == IF fetched
                 THEN events \o <<Sleep("detail"),
                                  Get(detail_url(href_of(page_num, idx)),
                                      detail.result \in {"ok", "raise"})>>
                 ELSE events
           page_data == IF fetched THEN data \o extract_item(detail, image_lien) ELSE data
       IN IF idx < n_containers
          THEN /\ events' = ev
               /\ data' = page_data
               /\ idx' = idx + 1
               /\ UNCHANGED <<pc, page_num, all_data, error>>
          ELSE EndOfPage(ev, page_data)
    /\ UNCHANGED <<category, num_pages, containers>>
    /\ UNCHANGED clean_vars
    /\ UNCHANGED save_vars

\* lines 204-219: the DataFrame is built, cleaned and returned
Return ==
    /\ pc = "clean"
    /\ df' = DataFrameOf(all_data)
    /\ out' = clean_beautifulsoup_data(DataFrameOf(all_data))
    /\ runs' = runs + 1
    /\ pc' = IF out'.raised THEN "failed" ELSE "done"
    /\ error' = IF out'.raised THEN "Exception" ELSE error
    /\ UNCHANGED <<category, num_pages, page_num, containers, idx, data, all_data, events>>
    /\ UNCHANGED save_vars

Next ==
    \/ \E c \in CategoryInputs, n \in 1..MaxPages : Call(c, n)
    \/ \E result \in {"network", "status", "parse"} : PageFails(result)
    \/ \E n \in 0..MaxContainers : \E found \in [1..n -> CrawlContainers] :
          PageArrives(found)
    \/ \E container \in CrawlContainers, detail \in CrawlDetailPages :
          Container(container, detail)
    \/ Return

Spec == Init /\ [][Next]_vars

(***************************************************************************)
(* A crawl of one page, with every kind of container and of detail page    *)
(***************************************************************************)
NextPage ==
    \/ \E c \in CategoryInputs : Call(c, 1)
    \/ \E result \in {"network", "status", "parse"} : PageFails(result)
    \/ \E n \in 0..MaxPageContainers : \E found \in [1..n -> Containers] :
          PageArrives(found)
    \/ \E container \in Containers : \E detail \in DetailPagesOf(container) :
          Container(container, detail)
    \/ Return

SpecPage == Init /\ [][NextPage]_vars

(***************************************************************************)
(* A crawl of one page whose items differ by their price                   *)
(***************************************************************************)
NextPrice ==
    \/ Call("chiens", 1)
    \/ PageFails("status")
    \/ \E n \in 0..MaxPageContainers : \E found \in [1..n -> CrawlContainers] :
          PageArrives(found)
    \/ \E container \in CrawlContainers, detail \in PriceDetailPages :
          Container(container, detail)
    \/ Return

SpecPrice == Init /\ [][NextPrice]_vars

(***************************************************************************)
(* Termination: scrape_category runs in one thread that always takes its   *)
(* next step (every request has a timeout, every sleep is finite).         *)
(* Fairness is stated on the steps of the loops (Loop) and on the step     *)
(* that leaves "clean" (Returns): Return has no guard but pc = "clean", so *)
(* Returns is possible exactly when Return is.                             *)
(***************************************************************************)
Loop ==
    \/ \E c \in CategoryInputs, n \in 1..MaxPages : Call(c, n)
    \/ \E result \in {"network", "status", "parse"} : PageFails(result)
    \/ \E n \in 0..MaxContainers : \E found \in [1..n -> CrawlContainers] :
          PageArrives(found)
    \/ \E container \in CrawlContainers, detail \in CrawlDetailPages :
          Container(container, detail)

Returns == pc = "clean" /\ pc' \in {"done", "failed"}

SpecLive == Init /\ [][Next]_vars /\ WF_vars(Loop) /\ WF_pc(Returns)

(***************************************************************************)
(* The cleaner alone, on every table of InputTables                        *)
(***************************************************************************)
InitClean ==
    /\ pc = "idle"
    /\ category = ""
    /\ num_pages = 0
    /\ page_num = 0
    /\ containers = <<>>
    /\ idx = 0
    /\ data = <<>>
    /\ all_data = <<>>
    /\ events = <<>>
    /\ error = ""
    /\ \E n \in 0..MaxRows : \E rows \in [1..n -> RowSamples] :
          \E shape \in {"none", "four", "wide"} :
             /\ shape = "none" => n = 0
             /\ shape = "wide" => n <= MaxWideRows
             /\ df = InputTable(shape, rows)
    /\ out = NoTable
    /\ runs = 0
    /\ files = {}
    /\ saved = ""

\* clean_beautifulsoup_data(df)
CleanCall ==
    /\ runs = 0
    /\ out' = clean_beautifulsoup_data(df)
    /\ runs' = 1
    /\ UNCHANGED df
    /\ UNCHANGED crawl_vars
    /\ UNCHANGED save_vars

\* clean_beautifulsoup_data applied to the table it returned
CleanAgain ==
    /\ runs = 1
    /\ ~out.raised
    /\ df' = out
    /\ out' = clean_beautifulsoup_data(out)
    /\ runs' = 2
    /\ UNCHANGED crawl_vars
    /\ UNCHANGED save_vars

NextClean == CleanCall \/ CleanAgain

SpecClean == InitClean /\ [][NextClean]_vars

(***************************************************************************)
(* save_to_csv, src/scraper/beautifulsoup_scraper.py                       *)
(***************************************************************************)
\* line 239
filepath(filename) == "data/scraped/" \o filename \o ".csv"

\* line 240: the file df.to_csv(filepath, index=False) leaves: the column
\* labels as header and the rows, without the index
csv_file(path, table) == [path |-> path, header |-> table.columns, rows |-> table.rows]

\* the file names and the tables save_to_csv is called with
FileNames == {"chiens_20240101_120000"}

InitSave ==
    /\ pc = "idle"
    /\ category = ""
    /\ num_pages = 0
    /\ page_num = 0
    /\ containers = <<>>
    /\ idx = 0
    /\ data = <<>>
    /\ all_data = <<>>
    /\ events = <<>>
    /\ error = ""
    /\ \E n \in 0..MaxWideRows : \E rows \in [1..n -> RowSamples] :
          \E shape \in {"none", "four", "wide"} :
             /\ shape = "none" => n = 0
             /\ df = InputTable(shape, rows)
    /\ out = NoTable
    /\ runs = 0
    /\ files = {}
    /\ saved = ""

\* mutant of save_to_csv: the file is written before the table is looked at
save_to_csv_writes_first(filename, written) ==
    /\ saved = ""
    /\ IF written
       THEN /\ files' = files \cup {csv_file(filepath(filename), df)}
            /\ saved' = IF df_empty(df) THEN "ValueError" ELSE filepath(filename)
       ELSE files' = files /\ saved' = "OSError"
    /\ UNCHANGED crawl_vars
    /\ UNCHANGED clean_vars

\* lines 236-242: save_to_csv(df, filename); written tells whether to_csv
\* could write the file (it raises OSError otherwise)
save_to_csv(filename, written) ==
    /\ saved = ""
    /\ IF df_empty(df)
       THEN files' = files /\ saved' = "ValueError"
       ELSE IF written
       THEN /\ files' = files \cup {csv_file(filepath(filename), df)}
            /\ saved' = filepath(filename)
       ELSE files' = files /\ saved' = "OSError"
    /\ UNCHANGED crawl_vars
    /\ UNCHANGED clean_vars

NextSave == \E filename \in FileNames, written \in BOOLEAN : save_to_csv(filename, written)

SpecSave == InitSave /\ [][NextSave]_vars

(***************************************************************************)
(* Properties of clean_beautifulsoup_data (checked under SpecClean unless  *)
(* stated otherwise).  In every state with runs >= 1, out is what the      *)
(* cleaner returned for df.                                                *)
(***************************************************************************)
Cleaned == runs >= 1

Rows(t) == 1..Len(t.rows)

\* the rows of df left by the empty-name filter and the keyword filter
Survivors == drop_prix_sur_demande(drop_empty_nom(df))

\* the rows of df left by the three filters
Kept == drop_prix_aberrants(Survivors)

\* a row without its name
WithoutNom(row) ==
    [prix |-> row["prix"], adresse |-> row["adresse"], image_lien |-> row["image_lien"]]

\* C1: every row of the returned table has a name that is present and of
\* length greater than zero.
C1_NomNonEmpty ==
    Cleaned =>
        \A i \in Rows(out) :
            /\ "nom" \in DOMAIN out.rows[i]
            /\ ~out.rows[i]["nom"].null
            /\ Len(out.rows[i]["nom"].v) > 0

\* C1 witness: the input holds a row with a missing name and a row with an
\* empty name, and the returned table is not empty.
C1_Witness ==
    /\ runs = 1
    /\ \E i \in Rows(df) : df.rows[i]["nom"].null
    /\ \E i \in Rows(df) : ~df.rows[i]["nom"].null /\ Len(df.rows[i]["nom"].v) = 0
    /\ Len(out.rows) > 0

\* the text of a price, lower-cased, holds one of the four keywords
HasKeyword(prix) ==
    /\ ~prix.null
    /\ \E k \in {KW_DEMANDE, KW_NEGOCIABLE, KW_CONTACTER, KW_APPELER} :
          str_contains(str_lower(prix.v), k)

\* C2: no row of the returned table has a price text that, lower-cased,
\* contains 'demande', 'négociable', 'contacter' or 'appeler'.
C2_NoKeywordPrix ==
    Cleaned => \A i \in Rows(out) : ~HasKeyword(out.rows[i]["prix"])

\* C2 witness: the input holds a named row whose price has a keyword in
\* upper case and a named row whose price has one in lower case, and the
\* returned table is not empty.
C2_Witness ==
    /\ runs = 1
    /\ \E i \in Rows(df) : nom_mask(df.rows[i]["nom"]) /\ df.rows[i]["prix"] = Some(P_APPELER_99)
    /\ \E i \in Rows(df) : nom_mask(df.rows[i]["nom"]) /\ df.rows[i]["prix"] = Some(P_SUR_DEMANDE)
    /\ Len(out.rows) > 0

RECURSIVE SumOver(_, _)
SumOver(nums, S) ==
    IF S = {} THEN 0
    ELSE LET i == CHOOSE j \in S : TRUE IN nums[i].v + SumOver(nums, S \ {i})

\* the parsed prices of a table's rows, NaN where the price does not parse
NumsOf(t) == [i \in Rows(t) |-> prix_num(t.rows[i]["prix"])]

ParsedOf(nums) == {i \in 1..Len(nums) : ~nums[i].null}

\* price n is strictly below half the mean of the parsed prices:
\* n < (total / count) / 2
BelowThreshold(n, count, total) == 2 * count * n < total

AtThreshold(n, count, total) == 2 * count * n = total

\* C3: the threshold is half the mean of the parsed prices of exactly the
\* rows that survived the empty-name and keyword filters; a survivor is
\* dropped iff its price parses and is strictly below the threshold (a price
\* equal to the threshold and an unparseable price are kept).
C3_OutlierThreshold ==
    Cleaned /\ ~df_empty(df) =>
        LET survivors == Survivors
            nums == NumsOf(survivors)
            count == Cardinality(ParsedOf(nums))
            total == SumOver(nums, ParsedOf(nums))
            expected == SelectSeq([i \in Rows(survivors) |-> i],
                           LAMBDA i : nums[i].null \/ ~BelowThreshold(nums[i].v, count, total))
        IN /\ Len(out.rows) = Len(expected)
           /\ \A j \in Rows(out) :
                 WithoutNom(out.rows[j]) = WithoutNom(survivors.rows[expected[j]])

\* C3 witness: a row removed by an earlier filter has a parseable price, a
\* survivor is priced exactly at the threshold, another has no parseable
\* price, and both are in the returned table.
C3_Witness ==
    /\ runs = 1
    /\ Len(out.rows) >= 3
    /\ \E i \in Rows(df) : ~nom_mask(df.rows[i]["nom"]) /\ ~prix_num(df.rows[i]["prix"]).null
    /\ LET survivors == Survivors
           nums == NumsOf(survivors)
           count == Cardinality(ParsedOf(nums))
           total == SumOver(nums, ParsedOf(nums))
       IN /\ Len(out.rows) = Len(survivors.rows)
          /\ \E i \in ParsedOf(nums) : AtThreshold(nums[i].v, count, total)
          /\ \E i \in Rows(survivors) : nums[i].null

\* C3 witness of a removal: a survivor priced strictly below the threshold is
\* not in the returned table.
C3_WitnessDropped ==
    /\ runs = 1
    /\ LET survivors == Survivors
           nums == NumsOf(survivors)
           count == Cardinality(ParsedOf(nums))
           total == SumOver(nums, ParsedOf(nums))
       IN /\ Len(out.rows) < Len(survivors.rows)
          /\ \E i \in ParsedOf(nums) : BelowThreshold(nums[i].v, count, total)

\* C4: the names of the returned table are pairwise distinct.
C4_NomsUnique ==
    Cleaned =>
        \A i, j \in Rows(out) : i # j => out.rows[i]["nom"] # out.rows[j]["nom"]

\* number of rows before row i that carry the same name as row i
Earlier(noms, i) == Cardinality({j \in 1..(i - 1) : noms[j] = noms[i]})

\* C5: in row order, the first row carrying a name keeps it and the k-th
\* later row carrying the same original name gets the name followed by a
\* space and k; names [Chien, Chien, Chat, Chien] become
\* [Chien, Chien 1, Chat, Chien 2].
C5_SuffixByOccurrence ==
    Cleaned /\ ~df_empty(df) /\ has_column(Kept, "nom") =>
        LET noms == column(Kept, "nom")
        IN /\ Len(out.rows) = Len(noms)
           /\ \A i \in Rows(out) :
                 out.rows[i]["nom"] =
                    IF Earlier(noms, i) = 0 THEN noms[i]
                    ELSE Some(noms[i].v \o <<" ">> \o int_str(Earlier(noms, i)))
           /\ (noms = <<Some(N_CHIEN), Some(N_CHIEN), Some(N_CHAT), Some(N_CHIEN)>> =>
                 column(out, "nom") =
                    <<Some(N_CHIEN), Some(N_CHIEN_1), Some(N_CHAT),
                      Some(<<"C","h","i","e","n"," ","2">>)>>)

\* C5 witness: the names that pass the filters are Chien, Chien, Chat, Chien.
C5_Witness ==
    /\ runs = 1
    /\ ~df_empty(df)
    /\ has_column(Kept, "nom")
    /\ column(Kept, "nom") = <<Some(N_CHIEN), Some(N_CHIEN), Some(N_CHAT), Some(N_CHIEN)>>
    /\ Len(out.rows) = 4

\* a table as the claim describes an already-cleaned one
AlreadyCleaned(t) ==
    /\ ~t.raised
    /\ t.columns = columns_to_keep
    /\ t.index = [i \in Rows(t) |-> i - 1]
    /\ \A i \in Rows(t) : ~t.rows[i]["nom"].null /\ Len(t.rows[i]["nom"].v) > 0
    /\ \A i, j \in Rows(t) : i # j => t.rows[i]["nom"] # t.rows[j]["nom"]
    /\ \A i \in Rows(t) : ~HasKeyword(t.rows[i]["prix"])
    /\ LET nums == NumsOf(t)
           count == Cardinality(ParsedOf(nums))
           total == SumOver(nums, ParsedOf(nums))
       IN \A i \in ParsedOf(nums) : ~BelowThreshold(nums[i].v, count, total)

\* C6: the cleaner returns an already-cleaned table unchanged: same rows,
\* same order, same values.
C6_Idempotent ==
    Cleaned /\ AlreadyCleaned(df) => out = df

\* C6 witness: the cleaner ran on a table it had returned, which holds three
\* rows or more, a suffixed name, a parseable and an unparseable price.
C6_Witness ==
    /\ runs = 2
    /\ AlreadyCleaned(df)
    /\ Len(df.rows) >= 3
    /\ \E i \in Rows(df) : df.rows[i]["nom"] = Some(N_CHIEN_1)
    /\ \E i \in Rows(df) : ~prix_num(df.rows[i]["prix"]).null
    /\ \E i \in Rows(df) : prix_num(df.rows[i]["prix"]).null
    /\ out = df

\* C7 (checked under Spec): the table returned has exactly the four columns
\* nom, prix, adresse, image_lien, also after a crawl that collected nothing.
C7_FourColumns ==
    pc = "done" =>
        Len(out.columns) = 4 /\ Range(out.columns) = {"nom", "prix", "adresse", "image_lien"}

\* every named row of the input has a keyword in its price
AllRemovedEarly ==
    \A i \in Rows(df) : ~nom_mask(df.rows[i]["nom"]) \/ HasKeyword(df.rows[i]["prix"])

\* C8: the cleaner never raises; an empty input gives an empty output, and
\* so does an input of which the first two filters remove every row.
C8_NoRaiseOnEmpty ==
    Cleaned =>
        /\ ~out.raised
        /\ (Len(df.rows) = 0 => Len(out.rows) = 0)
        /\ (AllRemovedEarly => Len(out.rows) = 0)

\* C8 witness: a table of nameless rows and of named rows priced on request
\* was cleaned, and the result is an empty table.
C8_Witness ==
    /\ runs = 1
    /\ Len(df.rows) >= 2
    /\ AllRemovedEarly
    /\ \E i \in Rows(df) : ~nom_mask(df.rows[i]["nom"])
    /\ \E i \in Rows(df) : nom_mask(df.rows[i]["nom"]) /\ HasKeyword(df.rows[i]["prix"])
    /\ ~out.raised
    /\ Len(out.rows) = 0

\* C8 witness: every row of a non-empty table is nameless, so the keyword
\* filter, the outlier filter and the renaming run on no row at all.
C8_WitnessAllNameless ==
    /\ runs = 1
    /\ Len(df.rows) >= 2
    /\ \A i \in Rows(df) : ~nom_mask(df.rows[i]["nom"])
    /\ ~out.raised
    /\ Len(out.rows) = 0

(***************************************************************************)
(* Properties of scrape_category (checked under Spec)                      *)
(***************************************************************************)
ListingUrls == {page_url(CATEGORIES[c], n) : c \in DOMAIN CATEGORIES, n \in 1..MaxPages}

FailedListingGet(e) == e.op = "get" /\ ~e.ok /\ e.url \in ListingUrls

\* C9: once the request of a listing page has failed, the crawl has raised:
\* no table is returned (the items of the earlier pages included), the
\* cleaner is never invoked, and nothing is requested after the failed page.
C9_PageFailureFatal ==
    \A j \in 1..Len(events) :
        FailedListingGet(events[j]) =>
            /\ j = Len(events)
            /\ pc = "failed"
            /\ error = "Exception"
            /\ runs = 0
            /\ df = NoTable
            /\ out = NoTable

\* C9 witness: the request of page 2 failed after page 1 had given items.
C9_Witness ==
    /\ pc = "failed"
    /\ page_num = 2
    /\ Len(all_data) > 0
    /\ Len(events) > 0
    /\ FailedListingGet(events[Len(events)])

\* the processing of the container at idx ends without an item added
ContinuesWithoutItem ==
    /\ pc' # "failed"
    /\ error' = error
    /\ IF idx < n_containers
       THEN /\ pc' = "containers"
            /\ idx' = idx + 1
            /\ page_num' = page_num
            /\ data' = data
            /\ all_data' = all_data
       ELSE /\ all_data' = all_data \o data
            /\ IF page_num < num_pages
               THEN pc' = "page" /\ page_num' = page_num + 1
               ELSE pc' = "clean" /\ page_num' = page_num

\* C10: a failure of the request or of the extraction of one detail page
\* never aborts the crawl: no item is added, the items collected are kept,
\* and the crawl goes on with the next container, then the next pages.
C10_DetailFailureIsolated ==
    [][\A container \in Containers, detail \in DetailPages \cup CrawlDetailPages :
          (container.a = "href" /\ detail.result # "ok" /\ Container(container, detail))
             => ContinuesWithoutItem]_vars

FailedDetailGet(e) == e.op = "get" /\ ~e.ok /\ e.url \notin ListingUrls

\* C10 witness: a crawl returned a table although the request of a detail
\* page failed, with an item collected before it and an item after it.
C10_Witness ==
    /\ pc = "done"
    /\ Len(out.rows) >= 2
    /\ \E j \in 1..Len(events) :
          /\ FailedDetailGet(events[j])
          /\ \E i \in 1..(j - 1) : events[i].op = "get" /\ events[i].ok /\ events[i].url \notin ListingUrls
          /\ \E k \in (j + 1)..Len(events) : events[k].op = "get" /\ events[k].ok

\* the four identifiers of the site's categories
KnownCategories == {"chiens", "moutons", "poules-lapins-et-pigeons", "autres-animaux"}

\* C11: scrape_category called with a category that is not one of the four
\* identifiers (compared as they are written, so 'Chiens' is not one) raises
\* the error of line 175 (a ValueError) with no request made, no sleep taken
\* and the cleaner not called.
C11_InvalidCategoryRaisesFirst ==
    (pc # "idle" /\ category \notin KnownCategories) =>
        /\ pc = "failed"
        /\ error = "ValueError"
        /\ events = <<>>
        /\ runs = 0
        /\ out = NoTable

\* C11 witness: the call with 'Chiens' has raised.
C11_Witness ==
    /\ pc = "failed"
    /\ category = "Chiens"
    /\ error = "ValueError"
    /\ events = <<>>

\* the URLs of the detail pages
DetailUrls ==
    {detail_url(href_of(p, i)) : p \in 1..MaxPages, i \in 1..(MaxContainers + MaxPageContainers)}

\* positions in the log of the requests of listing pages
ListingGets == {j \in 1..Len(events) : events[j].op = "get" /\ events[j].url \notin DetailUrls}

Called == pc # "idle" /\ category \in KnownCategories

Finished == pc \in {"done", "failed"}

\* how a crawl of a known category can end
TwoEndings ==
    /\ (Called /\ pc = "done") =>
          /\ error = ""
          /\ runs = 1
          /\ ~out.raised
          /\ Cardinality(ListingGets) = num_pages
          /\ \A j \in ListingGets : events[j].ok
    /\ (Called /\ pc = "failed") =>
          /\ error = "Exception"
          /\ runs = 0
          /\ out = NoTable
          /\ Len(events) \in ListingGets
          /\ Cardinality(ListingGets) = page_num
          /\ \A j \in ListingGets : j < Len(events) => events[j].ok

\* C12: a crawl of a known category over N >= 1 pages ends, and it ends in
\* one of two ways: a table is returned by the cleaner after every listing
\* page was requested, or one error is raised by the listing page whose
\* request (or parsing) failed, the first to fail and the last thing
\* requested; a failure on a detail page never ends the crawl.
C12_TerminatesTwoWays ==
    /\ []TwoEndings
    /\ (Called ~> Finished)

\* C12 witness: a crawl of two pages returned an empty table after the
\* requests of two detail pages or more had failed.
C12_Witness ==
    /\ pc = "done"
    /\ num_pages = 2
    /\ Len(out.rows) = 0
    /\ Cardinality({j \in 1..Len(events) :
                       events[j].op = "get" /\ ~events[j].ok /\ events[j].url \in DetailUrls}) >= 2

(***************************************************************************)
(* Properties of scrape_page (checked under SpecPage: one listing page)    *)
(***************************************************************************)
\* number of containers of the page whose turn in the loop is over
Processed == IF pc = "containers" THEN idx - 1 ELSE Len(containers)

\* the positions, in document order, of the processed containers that have
\* an anchor with an href
HrefPositions == SelectSeq([i \in 1..Processed |-> i], LAMBDA i : containers[i].a = "href")

\* the requests of detail pages, in the order they were made
DetailGets == SelectSeq(events, LAMBDA e : e.op = "get" /\ e.url \in DetailUrls)

DetailSleeps == SelectSeq(events, LAMBDA e : e.op = "sleep" /\ e.url = "detail")

\* the items collected on the page
PageItems == IF pc = "containers" THEN data ELSE all_data

\* the image link the listing page gives for the container at position i
ImageOf(i) ==
    IF containers[i].img
    THEN Some("https://static/1-" \o ToString(i) \o ".jpg")
    ELSE NoneStr

\* C13: the detail pages requested are those of the containers that have an
\* anchor with an href, one each, in document order; a container without
\* anchor or without href brings no sleep, no request and no error, and the
\* containers after it are processed.  When every detail page gave an item,
\* the items carry the images of those containers, in the same order.
C13_MalformedContainerSkipped ==
    LET hrefs == HrefPositions
        gets == DetailGets
    IN /\ Len(gets) = Len(hrefs)
       /\ \A k \in 1..Len(gets) :
             gets[k].url = "https://sn.coinafrique.com/annonces/1-" \o ToString(hrefs[k])
       /\ Len(DetailSleeps) = Len(hrefs)
       /\ (pc = "failed" /\ Called => Len(events) \in ListingGets)
       /\ Len(PageItems) <= Len(hrefs)
       /\ (Len(PageItems) = Len(hrefs) =>
             \A k \in 1..Len(hrefs) : PageItems[k]["image_lien"] = ImageOf(hrefs[k]))

\* C13 witness: a page of four containers, the second without anchor, the
\* three others with an href, has been processed: three detail pages were
\* requested and three items collected.
C13_Witness ==
    /\ pc = "clean"
    /\ Len(containers) = 4
    /\ containers[2].a = "none"
    /\ \A i \in {1, 3, 4} : containers[i].a = "href"
    /\ Len(DetailGets) = 3
    /\ Len(all_data) = 3

(***************************************************************************)
(* Items without a price (checked under SpecPrice)                         *)
(***************************************************************************)
\* the step of the loop for a detail page left an item with this name, no
\* price and this address at the end of the items collected
AddedWithoutPrix(nom, adresse) ==
    LET before == IF idx < n_containers THEN data ELSE all_data \o data
        after == IF idx < n_containers THEN data' ELSE all_data'
    IN /\ Len(after) = Len(before) + 1
       /\ SubSeq(after, 1, Len(before)) = before
       /\ after[Len(after)]["nom"] = nom
       /\ after[Len(after)]["prix"] = None
       /\ after[Len(after)]["adresse"] = adresse

\* every row of the raw table without a price is in the table returned
\* (rows are told apart by their image link)
NoPrixRowsKept ==
    pc = "done" =>
        \A i \in Rows(df) :
            df.rows[i]["prix"].null =>
                \E j \in Rows(out) :
                    /\ out.rows[j]["image_lien"] = df.rows[i]["image_lien"]
                    /\ out.rows[j]["prix"].null
                    /\ out.rows[j]["adresse"] = df.rows[i]["adresse"]

\* C14: a detail page with a name and no price node gives an item with the
\* trimmed name, a null price and the address of the page; the cleaner keeps
\* every such item, whatever the prices of the other rows (the keyword
\* filter and the outlier filter both let it through).
C14_NoPrixItemKept ==
    /\ [][\A container \in CrawlContainers, detail \in PriceDetailPages :
            (/\ detail.result = "ok"
             /\ detail.price.null
             /\ ~detail.h1.null
             /\ Container(container, detail))
               => AddedWithoutPrix(Some(str_strip(detail.h1.v)), detail.address)]_vars
    /\ []NoPrixRowsKept

\* C14 witness: a crawl collected an item without price, an item at 30 CFA
\* and an item at 5 CFA; the cleaner removed the item at 5 CFA as an outlier
\* and kept the one without price.
C14_Witness ==
    /\ pc = "done"
    /\ \E i \in Rows(df) : df.rows[i]["prix"] = Some(P_5CFA)
    /\ \E i \in Rows(df) : df.rows[i]["prix"] = Some(P_30_CFA)
    /\ \E i \in Rows(df) : df.rows[i]["prix"].null
    /\ \A j \in Rows(out) : out.rows[j]["prix"] # Some(P_5CFA)
    /\ \E j \in Rows(out) : out.rows[j]["prix"].null /\ out.rows[j]["adresse"] = Some("Dakar")

(***************************************************************************)
(* Order of the pages (checked under Spec)                                 *)
(***************************************************************************)
\* the requests of listing pages, in the order they were made
ListingGetSeq == SelectSeq(events, LAMBDA e : e.op = "get" /\ e.url \notin DetailUrls)

\* the address of page n of a category, as the site's convention gives it
ExpectedPageUrl(c, n) ==
    IF n = 1
    THEN "https://sn.coinafrique.com/categorie/" \o c
    ELSE "https://sn.coinafrique.com/categorie/" \o c \o "?page=" \o ToString(n)

\* C15: the n-th listing page requested is page n of the category (the base
\* URL for n = 1, the base URL followed by ?page=n after it): pages are
\* requested in increasing order, none twice, none skipped, and a crawl
\* that returns has requested exactly the pages 1..N.
C15_PagesInOrderOnce ==
    Called =>
        LET gets == ListingGetSeq
        IN /\ \A n \in 1..Len(gets) : gets[n].url = ExpectedPageUrl(category, n)
           /\ Len(gets) = (IF pc = "page" THEN page_num - 1 ELSE page_num)
           /\ Len(gets) <= num_pages
           /\ (pc \in {"clean", "done"} => Len(gets) = num_pages)

\* C15 witness: a crawl of two pages returned; the base URL was requested,
\* then detail pages, then the base URL with ?page=2.
C15_Witness ==
    /\ pc = "done"
    /\ num_pages = 2
    /\ Len(ListingGetSeq) = 2
    /\ events[1] = Get("https://sn.coinafrique.com/categorie/chiens", TRUE)
    /\ \E j \in 2..Len(events) :
          /\ events[j] = Get("https://sn.coinafrique.com/categorie/chiens?page=2", TRUE)
          /\ \E i \in 2..(j - 1) : events[i].op = "get"

(***************************************************************************)
(* save_to_csv (checked under SpecSave)                                    *)
(***************************************************************************)
\* C16: save_to_csv called with an empty table (no row, or no column)
\* raises the error of line 237 (a ValueError) and leaves no file; that
\* error is raised for an empty table only.
C16_EmptyTableNotSaved ==
    saved # "" =>
        /\ (df_empty(df) => saved = "ValueError" /\ files = {})
        /\ (saved = "ValueError" => df_empty(df))

\* C16 witness: save_to_csv raised for a table with the four columns and no
\* row, and no file exists.
C16_Witness ==
    /\ saved = "ValueError"
    /\ df.columns = columns_to_keep
    /\ Len(df.rows) = 0
    /\ files = {}

\* C16 witness of a file written: a table with rows was saved.
C16_WitnessWritten ==
    /\ saved = "data/scraped/chiens_20240101_120000.csv"
    /\ Len(df.rows) > 0
    /\ Cardinality(files) = 1

(***************************************************************************)
(* Extraction of a detail page (checked under SpecPage)                    *)
(***************************************************************************)
\* the step of the loop left one more item, with this name, at the end of
\* the items collected
AddedNamed(nom) ==
    LET before == IF idx < n_containers THEN data ELSE all_data \o data
        after == IF idx < n_containers THEN data' ELSE all_data'
    IN /\ Len(after) = Len(before) + 1
       /\ SubSeq(after, 1, Len(before)) = before
       /\ after[Len(after)]["nom"] = nom

\* C17: when a lookup throws during the extraction of a detail page whose
\* heading holds a name, the item is still produced, with its name (the
\* field whose lookup threw being absent).
C17_LookupsIsolated ==
    [][\A container \in Containers, detail \in PageDetailPages :
          (/\ container.a = "href"
           /\ detail.result = "raise"
           /\ truthy(text_strip(detail.h1))
           /\ Container(container, detail))
             => AddedNamed(text_strip(detail.h1))]_vars

(***************************************************************************)
(* Order of the items (checked under Spec, where every container has an    *)
(* image, so that the image link of an item tells its page and position)   *)
(***************************************************************************)
\* the items collected so far: those of the finished pages, then those of
\* the page being processed
Collected == all_data \o data

Positions == (1..MaxPages) \X (1..MaxContainers)

\* the page and the position of the container an item comes from
PositionOf(item) ==
    CHOOSE pr \in Positions :
        item["image_lien"] =
            Some("https://static/" \o ToString(pr[1]) \o "-" \o ToString(pr[2]) \o ".jpg")

\* page-major order, then container order within the page
Precedes(a, b) == a[1] < b[1] \/ (a[1] = b[1] /\ a[2] < b[2])

\* C18: the items collected are in discovery order (page by page, and in
\* container order within a page), every entry is an item with a name (a
\* skipped container leaves nothing behind), each comes from a detail page
\* whose request succeeded, and the table handed to the cleaner lists them
\* in that order.
C18_DiscoveryOrder ==
    LET items == Collected
    IN /\ \A k \in 1..Len(items) :
             /\ truthy(items[k]["nom"])
             /\ \E pr \in Positions :
                   /\ pr = PositionOf(items[k])
                   /\ items[k]["image_lien"] = Some(src_of(pr[1], pr[2]))
                   /\ \E j \in 1..Len(events) :
                         events[j] = Get("https://sn.coinafrique.com/annonces/"
                                           \o ToString(pr[1]) \o "-" \o ToString(pr[2]), TRUE)
       /\ \A k, l \in 1..Len(items) :
             k < l => Precedes(PositionOf(items[k]), PositionOf(items[l]))
       /\ (pc = "done" /\ Len(all_data) > 0 => df.rows = all_data)

\* C18 witness: a crawl of two pages handed three items or more to the
\* cleaner, from both pages, after the request of a detail page had failed.
C18_Witness ==
    /\ pc = "done"
    /\ Len(df.rows) >= 3
    /\ PositionOf(df.rows[1])[1] = 1
    /\ PositionOf(df.rows[Len(df.rows)])[1] = 2
    /\ \E j \in 1..Len(events) :
          events[j].op = "get" /\ ~events[j].ok /\ events[j].url \in DetailUrls

(***************************************************************************)
(* Frame of clean_beautifulsoup_data (checked under SpecClean)             *)
(***************************************************************************)
\* the k-th smallest element of a set of row numbers
Nth(S, k) == CHOOSE x \in S : Cardinality({y \in S : y < x}) = k - 1

\* a name after cleaning: the original, or the original followed by a space
\* and an integer from 1 on
KeptOrSuffixed(orig, new) ==
    \/ new = orig
    \/ /\ ~orig.null
       /\ ~new.null
       /\ \E k \in 1..(MaxRows + 1) : new.v = orig.v \o <<" ">> \o int_str(k)

\* C19: the rows of the returned table are rows of the input, in the same
\* relative order, each taken once: no row is added or duplicated, the
\* price, the address and the image link of a row are untouched, and its
\* name is the original or the original followed by a space and a positive
\* integer.
C19_OnlyRemovesAndRenames ==
    Cleaned =>
        /\ ~out.raised
        /\ Len(out.rows) <= Len(df.rows)
        /\ \E S \in SUBSET Rows(df) :
              /\ Cardinality(S) = Len(out.rows)
              /\ \A j \in Rows(out) :
                    LET i == Nth(S, j)
                    IN /\ out.rows[j]["prix"] = df.rows[i]["prix"]
                       /\ out.rows[j]["adresse"] = df.rows[i]["adresse"]
                       /\ out.rows[j]["image_lien"] = df.rows[i]["image_lien"]
                       /\ KeptOrSuffixed(df.rows[i]["nom"], out.rows[j]["nom"])

\* C19 witness: of four rows the cleaner removed some, kept two or more and
\* renamed one.
C19_Witness ==
    /\ runs = 1
    /\ Len(df.rows) = 4
    /\ Len(out.rows) \in {2, 3}
    /\ \E j \in Rows(out) : \A i \in Rows(df) : out.rows[j]["nom"] # df.rows[i]["nom"]

(***************************************************************************)
(* Pages without container (checked under Spec)                            *)
(***************************************************************************)
\* the crawl goes on after page page_num as after any page, with nothing
\* added to the items
GoesOnUnchanged ==
    /\ error' = error
    /\ all_data' = all_data
    /\ IF page_num < num_pages
       THEN pc' = "page" /\ page_num' = page_num + 1
       ELSE pc' = "clean" /\ page_num' = page_num

\* C20: a listing page on which no container is found raises nothing and
\* adds no item; the crawl goes on with the next page, or to the cleaning
\* after page N, and a crawl that reaches the cleaning has requested all N
\* listing pages.
C20_EmptyPageGoesOn ==
    /\ [][PageArrives(<<>>) => GoesOnUnchanged]_vars
    /\ [](pc \in {"clean", "done"} => Len(ListingGetSeq) = num_pages)

\* C20 witness: the first of two pages held no container (its request is
\* followed at once by the sleep between pages), the second page was
\* requested and gave an item, and a table with that item was returned.
C20_Witness ==
    /\ pc = "done"
    /\ num_pages = 2
    /\ Len(events) >= 3
    /\ events[1] = Get("https://sn.coinafrique.com/categorie/chiens", TRUE)
    /\ events[2] = Sleep("page")
    /\ events[3] = Get("https://sn.coinafrique.com/categorie/chiens?page=2", TRUE)
    /\ Len(out.rows) >= 1

(***************************************************************************)
(* Sleeps between pages (checked under Spec)                               *)
(***************************************************************************)
\* positions in the log of the sleeps between pages
PageSleeps == {j \in 1..Len(events) : events[j].op = "sleep" /\ events[j].url = "page"}

\* C21: a crawl of N pages that completes has slept N - 1 times between
\* pages (never when N = 1): the k-th of these sleeps comes after everything
\* page k brought and right before the request of page k + 1, the request
\* of every page but the first comes right after such a sleep, and nothing
\* is slept after page N.
C21_SleepsBetweenPages ==
    Called =>
        /\ Cardinality(PageSleeps) = (IF pc = "failed" THEN Cardinality(ListingGets) - 1
                                      ELSE page_num - 1)
        /\ (pc \in {"clean", "done"} =>
              /\ Cardinality(PageSleeps) = num_pages - 1
              /\ Len(events) \notin PageSleeps)
        /\ \A j \in PageSleeps :
              /\ j > 1
              /\ j < Len(events) => j + 1 \in ListingGets
              /\ Cardinality({i \in ListingGets : i < j}) =
                    Cardinality({i \in PageSleeps : i <= j})
        /\ \A j \in ListingGets : (j > 1) = (j - 1 \in PageSleeps)

\* C21 witness: a crawl of two pages returned after exactly one sleep
\* between pages, taken after the detail pages of page 1 and before the
\* request of page 2.
C21_Witness ==
    /\ pc = "done"
    /\ num_pages = 2
    /\ Cardinality(PageSleeps) = 1
    /\ \E j \in PageSleeps :
          /\ events[j - 1].op = "get" /\ events[j - 1].url \in DetailUrls
          /\ events[j + 1] = Get("https://sn.coinafrique.com/categorie/chiens?page=2", TRUE)
          /\ Len(events) > j + 1

\* C21 witness of a crawl of one page: it returned items without any sleep
\* between pages.
C21_WitnessOnePage ==
    /\ pc = "done"
    /\ num_pages = 1
    /\ PageSleeps = {}
    /\ Len(out.rows) >= 1

(***************************************************************************)
(* Sleeps and requests of detail pages (checked under SpecPage)            *)
(***************************************************************************)
IsDetailGet(e) == e.op = "get" /\ e.url \in DetailUrls

IsDetailSleep(e) == e.op = "sleep" /\ e.url = "detail"

\* number of requests made of the detail page of the container at position i
RequestsOf(i) ==
    Cardinality({j \in 1..Len(events) :
        /\ events[j].op = "get"
        /\ events[j].url = "https://sn.coinafrique.com/annonces/1-" \o ToString(i)})

\* C22: in the log of the one thread of scrape_page, every request of a
\* detail page comes right after a detail sleep and every detail sleep is
\* followed at once by the request of a detail page (so one sleep per
\* request); a processed container with an href has had exactly one request
\* of its detail page, failed or not, and a container without href none.
C22_OneSleepOneFetch ==
    /\ \A j \in 1..Len(events) :
          /\ IsDetailGet(events[j]) => (j > 1 /\ IsDetailSleep(events[j - 1]))
          /\ IsDetailSleep(events[j]) => (j < Len(events) /\ IsDetailGet(events[j + 1]))
    /\ \A i \in 1..Len(containers) :
          RequestsOf(i) = (IF i <= Processed /\ containers[i].a = "href" THEN 1 ELSE 0)
    /\ Len(DetailSleeps) = Len(DetailGets)

\* C22 witness: on a page of three containers with an href, the request of
\* the first detail page failed and the two others succeeded: the log is the
\* request of the listing page, then three times a sleep and a request.
C22_Witness ==
    /\ pc = "clean"
    /\ Len(containers) = 3
    /\ \A i \in 1..3 : containers[i].a = "href"
    /\ Len(events) = 7
    /\ IsDetailSleep(events[2]) /\ IsDetailGet(events[3]) /\ ~events[3].ok
    /\ IsDetailSleep(events[4]) /\ IsDetailGet(events[5]) /\ events[5].ok
    /\ IsDetailSleep(events[6]) /\ IsDetailGet(events[7]) /\ events[7].ok

(***************************************************************************)
(* Which detail pages give an item (checked under SpecPage)                *)
(***************************************************************************)
\* the items collected before and after the step for the container at idx
ItemsBefore == IF idx < n_containers THEN data ELSE all_data \o data

ItemsAfter == IF idx < n_containers THEN data' ELSE all_data'

\* the detail page was fetched, its extraction raised nothing and its
\* heading holds a name that is not empty once trimmed
GivesItem(container, detail) ==
    /\ container.a = "href"
    /\ detail.result = "ok"
    /\ ~detail.h1.null
    /\ Len(str_strip(detail.h1.v)) > 0

\* the image link of the container at idx of the listing page
OwnImage(container) ==
    IF container.img
    THEN Some("https://static/" \o ToString(page_num) \o "-" \o ToString(idx) \o ".jpg")
    ELSE NoneStr

\* C23: the step for a container adds an item exactly when its detail page
\* was fetched, its extraction raised nothing and a non-empty name was
\* found; the item is added at the end, with that name and the image link
\* of its own container (null when the container has no image src); in
\* every other case the items collected are left as they were.
C23_ItemIffNamed ==
    [][\A container \in Containers, detail \in PageDetailPages \cup {NoDetailPage} :
          Container(container, detail) =>
             IF GivesItem(container, detail)
             THEN /\ Len(ItemsAfter) = Len(ItemsBefore) + 1
                  /\ SubSeq(ItemsAfter, 1, Len(ItemsBefore)) = ItemsBefore
                  /\ ItemsAfter[Len(ItemsAfter)]["nom"] = Some(str_strip(detail.h1.v))
                  /\ ItemsAfter[Len(ItemsAfter)]["image_lien"] = OwnImage(container)
             ELSE ItemsAfter = ItemsBefore]_vars

\* C23 witness: of four containers with an href, the first detail page
\* could not be fetched, the second had no name, the third and the fourth
\* gave an item; the two items carry the images of containers 3 and 4, one
\* of them null.
C23_Witness ==
    /\ pc = "clean"
    /\ Len(containers) = 4
    /\ \A i \in 1..4 : containers[i].a = "href"
    /\ containers[3].img /\ ~containers[4].img
    /\ Len(DetailGets) = 4
    /\ ~DetailGets[1].ok
    /\ Len(all_data) = 2
    /\ all_data[1]["image_lien"] = Some("https://static/1-3.jpg")
    /\ all_data[2]["image_lien"] = NoneStr

====
